---- MODULE Spec2Model ----
(***************************************************************************)
(* Model of the capture decoder of Pipe-Lion (core/src/lib.rs).            *)
(*                                                                         *)
(* process_packet is modelled as a state machine: one action per branch of *)
(* the dispatcher, one action per iteration of the legacy PCAP record      *)
(* loop, and one action per block the PCAP-NG block stream yields.  The    *)
(* protocol dissector (analyze_payload and the parsers under it) is a pure *)
(* function and is modelled by operators over byte sequences.              *)
(*                                                                         *)
(* Conventions                                                             *)
(*  - a byte buffer is a sequence of integers 0..255; Rust's data[a..b] is *)
(*    Slice(data, a, b) and data[k] is data[k + 1];                        *)
(*  - a u32 (and a usize of the 32-bit wasm target the crate is built for) *)
(*    is a pair <<hi, lo>> of 16-bit limbs, because the values of interest *)
(*    (a cap_len of 0xFFFFFFFF) do not fit the checker's integers;         *)
(*  - a String is a sequence of atoms [s |-> literal, n |-> number]: a     *)
(*    literal piece of text, or a formatted number tagged by its format.   *)
(*  - the fields time and info of a Packet (format_timestamp, the hex and  *)
(*    ascii previews and the JSON encoding) take no part in control flow   *)
(*    and are left out; the summary text that info carries is kept.        *)
(***************************************************************************)
EXTENDS Integers, Sequences, FiniteSets, TLC

\* ------------------------------------------------------------------ text

Lit(s) == << [s |-> s, n |-> 0] >>

Dec(n) == << [s |-> "{}", n |-> n] >>

Hex2(b) == << [s |-> "{:02X}", n |-> b] >>

Hex4(w) == << [s |-> "{:04X}", n |-> w] >>

\* The em dash, U+2014.
EM_DASH == Lit("U+2014")

\* The arrow, U+2192.
ARROW == Lit("U+2192")

\* ----------------------------------------------------------------- bytes

Byte == 0..255

Slice(s, a, b) == SubSeq(s, a + 1, b)

Min(a, b) == IF a < b THEN a ELSE b

starts_with(s, prefix) ==
    /\ Len(s) >= Len(prefix)
    /\ SubSeq(s, 1, Len(prefix)) = prefix

\* ------------------------------------------------- 32-bit words (u32, usize)

Limb == 256 * 256

U32(n) == << n \div Limb, n % Limb >>

U32Lt(a, b) == a[1] < b[1] \/ (a[1] = b[1] /\ a[2] < b[2])

U32Gt(a, b) == U32Lt(b, a)

\* A usize that is known to index a buffer of the model, as an integer.
ToInt(v) == v[1] * Limb + v[2]

Dec32(v) == << [s |-> "{}hi", n |-> v[1]], [s |-> "{}lo", n |-> v[2]] >>

u32_from_le_bytes(b) == << b[3] + 256 * b[4], b[1] + 256 * b[2] >>

u32_from_be_bytes(b) == << 256 * b[1] + b[2], 256 * b[3] + b[4] >>

u16_from_be_bytes(b) == 256 * b[1] + b[2]

\* a + b in a 32-bit usize: the wrapped sum, and whether it overflowed.
usize_add(a, b) ==
    LET lo == a[2] + b[2]
        hi == a[1] + b[1] + (lo \div Limb)
    IN  [val |-> << hi % Limb, lo % Limb >>, overflow |-> hi >= Limb]

read_u32(endianness, bytes) ==
    IF endianness = "Little"
    THEN u32_from_le_bytes(SubSeq(bytes, 1, 4))
    ELSE u32_from_be_bytes(SubSeq(bytes, 1, 4))

\* ------------------------------------------------------------- formatting

RECURSIVE JoinHex(_, _)
JoinHex(bytes, sep) ==
    IF bytes = << >> THEN << >>
    ELSE IF Len(bytes) = 1 THEN Hex2(bytes[1])
    ELSE Hex2(bytes[1]) \o Lit(sep) \o JoinHex(Tail(bytes), sep)

format_mac(bytes) == JoinHex(bytes, ":")

format_port(address, port) == address \o Lit(":") \o Dec(port)

\* Ipv4Addr::new(a, b, c, d).to_string()
Ipv4String(a, b, c, d) ==
    Dec(a) \o Lit(".") \o Dec(b) \o Lit(".") \o Dec(c) \o Lit(".") \o Dec(d)

\* Ipv6Addr::from(bytes).to_string(): the sixteen bytes, tagged; the textual
\* zero compression of the address is not modelled.
Ipv6String(bytes) == [i \in 1..Len(bytes) |-> [s |-> "ipv6", n |-> bytes[i]]]

map_ip_protocol(value) ==
    CASE value = 1 -> "ICMP"
      [] value = 2 -> "IGMP"
      [] value = 6 -> "TCP"
      [] value = 17 -> "UDP"
      [] value = 41 -> "ENCAP"
      [] value = 47 -> "GRE"
      [] value = 50 -> "ESP"
      [] value = 51 -> "AH"
      [] value = 58 -> "ICMPv6"
      [] value = 89 -> "OSPF"
      [] value = 132 -> "SCTP"
      [] OTHER -> "IP"

describe_icmpv4(icmp_type, icmp_code) ==
    CASE icmp_type = 0 -> Lit("echo reply")
      [] icmp_type = 3 /\ icmp_code = 0 -> Lit("destination network unreachable")
      [] icmp_type = 3 /\ icmp_code = 1 -> Lit("destination host unreachable")
      [] icmp_type = 3 /\ icmp_code = 3 -> Lit("port unreachable")
      [] icmp_type = 5 /\ icmp_code = 1 -> Lit("redirect host")
      [] icmp_type = 8 -> Lit("echo request")
      [] icmp_type = 11 /\ icmp_code = 0 -> Lit("time exceeded in transit")
      [] icmp_type = 11 /\ icmp_code = 1 -> Lit("fragment reassembly time exceeded")
      [] OTHER -> Lit("type ") \o Dec(icmp_type) \o Lit(", code ") \o Dec(icmp_code)

describe_icmpv6(icmp_type, icmp_code) ==
    CASE icmp_type = 1 /\ icmp_code = 0 -> Lit("destination unreachable")
      [] icmp_type = 2 /\ icmp_code = 0 -> Lit("packet too big")
      [] icmp_type = 3 /\ icmp_code = 0 -> Lit("time exceeded")
      [] icmp_type = 128 -> Lit("echo request")
      [] icmp_type = 129 -> Lit("echo reply")
      [] icmp_type = 133 -> Lit("router solicitation")
      [] icmp_type = 134 -> Lit("router advertisement")
      [] icmp_type = 135 -> Lit("neighbor solicitation")
      [] icmp_type = 136 -> Lit("neighbor advertisement")
      [] OTHER -> Lit("type ") \o Dec(icmp_type) \o Lit(", code ") \o Dec(icmp_code)

\* -------------------------------------------------------------- dissector

\* Option<PacketAnalysis>
None == [some |-> FALSE]

Some(v) == [some |-> TRUE, val |-> v]

PacketAnalysis(source, destination, protocol, summary) ==
    [source |-> source, destination |-> destination,
     protocol |-> protocol, summary |-> summary]

fallback_analysis(linktype, length) ==
    PacketAnalysis(EM_DASH, EM_DASH,
                   Lit("LINKTYPE ") \o Dec32(linktype),
                   Lit("Captured ") \o Dec(length) \o Lit(" bytes (linktype ")
                       \o Dec32(linktype) \o Lit(")"))

\* The match on the protocol number shared by parse_ipv4_packet (ICMP is 1,
\* described by describe_icmpv4) and parse_ipv6_packet (ICMPv6 is 58).
transport_analysis(protocol, icmp, src_ip, dst_ip, payload) ==
    LET protocol_name == Lit(map_ip_protocol(protocol))
        plain == PacketAnalysis(src_ip, dst_ip, protocol_name,
                     protocol_name \o Lit(" ") \o src_ip \o Lit(" ") \o ARROW
                         \o Lit(" ") \o dst_ip)
    IN  IF protocol \in {6, 17, 132} /\ Len(payload) >= 4
        THEN LET src_port == u16_from_be_bytes(Slice(payload, 0, 2))
                 dst_port == u16_from_be_bytes(Slice(payload, 2, 4))
                 source == format_port(src_ip, src_port)
                 destination == format_port(dst_ip, dst_port)
             IN  PacketAnalysis(source, destination, protocol_name,
                     protocol_name \o Lit(" ") \o source \o Lit(" ") \o ARROW
                         \o Lit(" ") \o destination)
        ELSE IF protocol = icmp /\ Len(payload) >= 2
        THEN LET description == IF icmp = 1
                                THEN describe_icmpv4(payload[1], payload[2])
                                ELSE describe_icmpv6(payload[1], payload[2])
             IN  [plain EXCEPT !.summary =
                     Lit(IF icmp = 1 THEN "ICMP " ELSE "ICMPv6 ") \o src_ip
                         \o Lit(" ") \o ARROW \o Lit(" ") \o dst_ip
                         \o Lit(" (") \o description \o Lit(")")]
        ELSE plain

parse_ipv4_packet(packet) ==
    IF Len(packet) < 20 THEN None
    ELSE LET version_ihl == packet[1] IN
    IF version_ihl \div 16 # 4 THEN None
    ELSE LET ihl == (version_ihl % 16) * 4 IN
    IF ihl < 20 \/ Len(packet) < ihl THEN None
    ELSE LET total_length == u16_from_be_bytes(Slice(packet, 2, 4)) IN
    IF total_length < ihl THEN None
    ELSE LET protocol == packet[10]
             src_ip == Ipv4String(packet[13], packet[14], packet[15], packet[16])
             dst_ip == Ipv4String(packet[17], packet[18], packet[19], packet[20])
             payload_end == Min(Len(packet), total_length)
             payload == IF payload_end > ihl
                        THEN Slice(packet, ihl, payload_end) ELSE << >>
         IN  Some(transport_analysis(protocol, 1, src_ip, dst_ip, payload))

ExtensionHeaderHops == 4

\* Mutant: the length check accepts a header that ends one byte past the buffer.
fits_one_short(packet, offset, n) == Len(packet) + 1 >= offset + n

\* The negation of "packet.len() < offset + n".
fits(packet, offset, n) == Len(packet) >= offset + n

\* One iteration of the loop "for _ in 0..4" of parse_ipv6_packet: whether it
\* breaks, and the next_header and offset it leaves.
extension_header_step(packet, next_header, offset) ==
    LET break == [break |-> TRUE, next_header |-> next_header, offset |-> offset]
        skip(hdr_len) == [break |-> FALSE, next_header |-> packet[offset + 1],
                          offset |-> offset + hdr_len]
    IN  IF next_header \in {0, 43, 60}
        THEN IF ~ fits(packet, offset, 8) THEN break
             ELSE LET hdr_len == (packet[offset + 2] + 1) * 8 IN
                  IF ~ fits(packet, offset, hdr_len) THEN break ELSE skip(hdr_len)
        ELSE IF next_header = 44
        THEN IF ~ fits(packet, offset, 8) THEN break ELSE skip(8)
        ELSE IF next_header = 51
        THEN IF ~ fits(packet, offset, 4) THEN break
             ELSE LET hdr_len == (packet[offset + 2] + 2) * 4 IN
                  IF ~ fits(packet, offset, hdr_len) THEN break ELSE skip(hdr_len)
        ELSE break

\* The loop "for _ in 0..4" of parse_ipv6_packet: the next_header and offset
\* it ends with, and the number of extension headers it skipped.
RECURSIVE skip_extension_headers(_, _, _, _)
skip_extension_headers(packet, next_header, offset, left) ==
    LET step == extension_header_step(packet, next_header, offset)
    IN  IF left = 0 \/ step.break
        THEN [next_header |-> next_header, offset |-> offset,
              hops |-> ExtensionHeaderHops - left]
        ELSE skip_extension_headers(packet, step.next_header, step.offset, left - 1)

\* parse_ipv6_packet up to the loop: the length and version checks.
ipv6_header_ok(packet) == Len(packet) >= 40 /\ packet[1] \div 16 = 6

\* parse_ipv6_packet after the loop.
ipv6_finish(packet, next_header, offset) ==
    LET src_ip == Ipv6String(Slice(packet, 8, 24))
        dst_ip == Ipv6String(Slice(packet, 24, 40))
    IN  IF offset > Len(packet) THEN None
        ELSE Some(transport_analysis(next_header, 58, src_ip, dst_ip,
                      Slice(packet, offset, Len(packet))))

parse_ipv6_packet(packet) ==
    IF ~ ipv6_header_ok(packet) THEN None
    ELSE LET ext == skip_extension_headers(packet, packet[7], 40,
                                           ExtensionHeaderHops)
         IN  ipv6_finish(packet, ext.next_header, ext.offset)

parse_arp_packet(packet, src_mac, dst_mac) ==
    IF Len(packet) < 28 THEN None
    ELSE LET hw_type == u16_from_be_bytes(Slice(packet, 0, 2))
             proto_type == u16_from_be_bytes(Slice(packet, 2, 4))
             hw_len == packet[5]
             proto_len == packet[6]
             operation == u16_from_be_bytes(Slice(packet, 6, 8))
         IN
    IF hw_type # 1 \/ proto_type # 2048 \/ hw_len # 6 \/ proto_len # 4
    THEN None
    ELSE IF Len(packet) < 8 + 2 * (hw_len + proto_len) THEN None
    ELSE LET sender_mac == format_mac(Slice(packet, 8, 14))
             sender_ip == Ipv4String(packet[15], packet[16], packet[17], packet[18])
             target_mac == format_mac(Slice(packet, 18, 24))
             target_ip == Ipv4String(packet[25], packet[26], packet[27], packet[28])
             summary ==
                 CASE operation = 1 ->
                        Lit("ARP who-has ") \o target_ip \o Lit(" tell ") \o sender_ip
                   [] operation = 2 ->
                        Lit("ARP reply ") \o sender_ip \o Lit(" is-at ") \o sender_mac
                   [] OTHER ->
                        Lit("ARP op ") \o Dec(operation) \o Lit(" ") \o sender_ip
                            \o Lit(" ") \o ARROW \o Lit(" ") \o target_ip
         IN  Some(PacketAnalysis(sender_ip, target_ip, Lit("ARP"),
                     summary \o Lit(" (") \o src_mac \o Lit(" ") \o ARROW \o Lit(" ")
                         \o (IF operation = 2 THEN target_mac ELSE dst_mac)
                         \o Lit(")")))

analyze_raw_ip(payload) ==
    IF payload = << >> THEN None
    ELSE IF payload[1] \div 16 = 4 THEN parse_ipv4_packet(payload)
    ELSE IF payload[1] \div 16 = 6 THEN parse_ipv6_packet(payload)
    ELSE None

\* u32::from_ne_bytes: the wasm target is little-endian.
analyze_null_loopback(payload) ==
    IF Len(payload) < 4 THEN None
    ELSE LET family == u32_from_le_bytes(Slice(payload, 0, 4))
             data == Slice(payload, 4, Len(payload))
         IN  IF family = U32(2) THEN parse_ipv4_packet(data)
             ELSE IF family = U32(24) THEN parse_ipv6_packet(data)
             ELSE None

\* "if analysis.source == EM_DASH" and its twin for the destination.
mac_fallback(analysis, src_mac, dst_mac) ==
    [analysis EXCEPT
        !.source = IF analysis.source = EM_DASH THEN src_mac ELSE @,
        !.destination = IF analysis.destination = EM_DASH THEN dst_mac ELSE @]

analyze_ethernet_frame(frame) ==
    IF Len(frame) < 14 THEN fallback_analysis(U32(1), Len(frame))
    ELSE LET dst_mac == format_mac(Slice(frame, 0, 6))
             src_mac == format_mac(Slice(frame, 6, 12))
             ethertype == u16_from_be_bytes(Slice(frame, 12, 14))
             rest == Slice(frame, 14, Len(frame))
             inner == CASE ethertype = 2048 -> parse_ipv4_packet(rest)
                        [] ethertype = 34525 -> parse_ipv6_packet(rest)
                        [] ethertype = 2054 -> parse_arp_packet(rest, src_mac, dst_mac)
                        [] OTHER -> None
         IN  IF inner.some
             THEN IF ethertype = 2054 THEN inner.val
                  ELSE mac_fallback(inner.val, src_mac, dst_mac)
             ELSE PacketAnalysis(src_mac, dst_mac,
                      Lit("EtherType 0x") \o Hex4(ethertype),
                      Lit("Ethernet 0x") \o Hex4(ethertype) \o Lit(" ") \o ARROW
                          \o Lit(" captured ") \o Dec(Len(frame)) \o Lit(" bytes"))

\* Mutant: PacketAnalysis::default() instead of the fallback analysis.
unwrap_or_default(option, linktype, length) ==
    IF option.some THEN option.val ELSE PacketAnalysis(<< >>, << >>, << >>, << >>)

unwrap_or_fallback(option, linktype, length) ==
    IF option.some THEN option.val ELSE fallback_analysis(linktype, length)

analyze_payload(linktype, payload) ==
    CASE linktype = U32(1) -> analyze_ethernet_frame(payload)
      [] linktype = U32(0) ->
           unwrap_or_fallback(analyze_null_loopback(payload), linktype, Len(payload))
      [] linktype \in {U32(101), U32(228)} ->
           unwrap_or_fallback(parse_ipv4_packet(payload), linktype, Len(payload))
      [] linktype = U32(229) ->
           unwrap_or_fallback(parse_ipv6_packet(payload), linktype, Len(payload))
      [] OTHER ->
           unwrap_or_fallback(analyze_raw_ip(payload), linktype, Len(payload))

\* -------------------------------------------------------- format detection

PCAPNG_MAGIC == << 10, 13, 13, 10 >>

\* The four legacy magics, as u32::from_le_bytes reads the first four bytes:
\* 0xA1B2C3D4, 0xA1B23C4D, 0xD4C3B2A1, 0x4D3CB2A1.
MAGIC_LE_MICRO == << 41394, 50132 >>

MAGIC_LE_NANO == << 41394, 15437 >>

MAGIC_BE_MICRO == << 54467, 45729 >>

MAGIC_BE_NANO == << 19772, 45729 >>

detect_format(data) ==
    IF Len(data) < 4 THEN "Raw"
    ELSE IF starts_with(data, PCAPNG_MAGIC) THEN "PcapNg"
    ELSE IF u32_from_le_bytes(Slice(data, 0, 4))
              \in {MAGIC_LE_MICRO, MAGIC_LE_NANO, MAGIC_BE_MICRO, MAGIC_BE_NANO}
    THEN "Pcap"
    ELSE "Raw"

\* read_i32: the four bytes in the given order; the sign is not interpreted.
read_i32(endianness, bytes) == read_u32(endianness, bytes)

Ok(v) == [ok |-> TRUE, val |-> v]

Err(e) == [ok |-> FALSE, err |-> e]

parse_pcap_header(data) ==
    IF Len(data) < 24 THEN Err(Lit("PCAP data is too short"))
    ELSE LET magic == u32_from_le_bytes(Slice(data, 0, 4))
             known == {MAGIC_LE_MICRO, MAGIC_LE_NANO, MAGIC_BE_MICRO, MAGIC_BE_NANO}
             endianness == IF magic \in {MAGIC_LE_MICRO, MAGIC_LE_NANO}
                           THEN "Little" ELSE "Big"
             resolution == IF magic \in {MAGIC_LE_MICRO, MAGIC_BE_MICRO}
                           THEN 1000000 ELSE 1000000000
         IN  IF magic \notin known THEN Err(Lit("Unrecognized PCAP header"))
             ELSE Ok([header |->
                        [endianness |-> endianness,
                         resolution |-> resolution,
                         timezone_offset |-> read_i32(endianness, Slice(data, 8, 12)),
                         linktype |-> read_u32(endianness, Slice(data, 20, 24)),
                         snaplen |-> read_u32(endianness, Slice(data, 16, 20))],
                      offset |-> 24])

\* ------------------------------------------------------------ the envelope

\* Packet, without time and info (see the head of the module).
create_packet(meta, payload) ==
    [source |-> meta.source, destination |-> meta.destination,
     protocol |-> meta.protocol, length |-> meta.length,
     summary |-> meta.summary, payload |-> payload]

PacketMetadata(analysis, length) ==
    [source |-> analysis.source, destination |-> analysis.destination,
     protocol |-> analysis.protocol, summary |-> analysis.summary,
     length |-> length]

PacketProcessingResult(p, w, e) == [packets |-> p, warnings |-> w, errors |-> e]

\* Mutant: the element is inserted at the front.
push_front(vec, x) == << x >> \o vec

\* Vec::push
push(vec, x) == Append(vec, x)

\* analysis.summary.push_str(" [truncated]")
mark_truncated(analysis) ==
    [analysis EXCEPT !.summary = @ \o Lit(" [truncated]")]

\* Mutant: the raw path answers the empty result for every buffer.
process_raw_payload_empty(data) == PacketProcessingResult(<< >>, << >>, << >>)

process_raw_payload(data) ==
    IF data = << >> THEN PacketProcessingResult(<< >>, << >>, << >>)
    ELSE LET summary == IF Len(data) = 1 THEN Lit("Raw payload (1 byte)")
                        ELSE Lit("Raw payload (") \o Dec(Len(data)) \o Lit(" bytes)")
             packet == create_packet(
                           [source |-> Lit("upload"), destination |-> EM_DASH,
                            protocol |-> Lit("RAW"), summary |-> summary,
                            length |-> U32(Len(data))],
                           data)
         IN  PacketProcessingResult(<< packet >>, << >>, << >>)

\* Mutant: the decoder's error is reported as a warning.
raw_fallback_as_warning(data, err) ==
    [process_raw_payload(data) EXCEPT !.warnings = Append(@, err)]

\* The Err arms of process_packet: the raw result with the error pushed.
raw_fallback(data, err) ==
    [process_raw_payload(data) EXCEPT !.errors = push(@, err)]

\* ------------------------------------------------------------------ state

VARIABLES
    data,          \* the buffer process_packet was called with
    pc,            \* "start", "pcap_loop", "ng_loop", "done", "panicked", "idle"
    format,        \* what detect_format answered ("None" before the call)
    header,        \* process_pcap: the PcapHeaderInfo
    offset,        \* process_pcap: offset
    index,         \* process_pcap: index
    packets,       \* the packets pushed so far (the result's, once done)
    warnings,      \* the warnings pushed so far
    errors,        \* the result's errors
    interfaces,    \* process_pcapng: interfaces
    packet_index,  \* process_pcapng: packet_index
    seen,          \* process_pcapng: what slice.next() has yielded, in order
    packet_pos,    \* history: for each packet, where in the input it came from
    warning_pos,   \* history: for each warning, the input position that caused it
    refeeds,       \* how many times an emitted payload was fed back in
    panic,         \* the panic message, once panicked
    a_pc,          \* dissector call: "idle", "call", "returned"
    a_input,       \* dissector call: [linktype, frame]
    a_result,      \* dissector call: the PacketAnalysis returned
    v6_next_header,  \* parse_ipv6_packet: next_header
    v6_offset,       \* parse_ipv6_packet: offset
    v6_hops          \* parse_ipv6_packet: iterations of "for _ in 0..4" begun

dec_vars == << data, pc, format, header, offset, index, packets, warnings, errors,
               interfaces, packet_index, seen, packet_pos, warning_pos, refeeds,
               panic >>

v6_vars == << v6_next_header, v6_offset, v6_hops >>

an_vars == << a_pc, a_input, a_result, v6_vars >>

vars == << dec_vars, an_vars >>

\* ----------------------------------------------------------------- bounds

MaxRecords == 2

MaxBlocks == 4

MaxRefeed == 1

\* ----------------------------------------------------------------- inputs

SeqsUpTo(S, n) == UNION { [1..k -> S] : k \in 0..n }

RECURSIVE Flatten(_)
Flatten(seqs) == IF seqs = << >> THEN << >> ELSE Head(seqs) \o Flatten(Tail(seqs))

enc_u32(endianness, v) ==
    LET be == << v[1] \div 256, v[1] % 256, v[2] \div 256, v[2] % 256 >>
    IN  IF endianness = "Big" THEN be ELSE << be[4], be[3], be[2], be[1] >>

enc_u16(endianness, n) ==
    IF endianness = "Big" THEN << n \div 256, n % 256 >> ELSE << n % 256, n \div 256 >>

U32_MAX == << Limb - 1, Limb - 1 >>

\* The 24-byte global header: magic, version 2.4, thiszone, sigfigs, snaplen,
\* linktype.
PcapHeaderBytes(magic, endianness, linktype) ==
    magic \o enc_u16(endianness, 2) \o enc_u16(endianness, 4)
          \o enc_u32(endianness, U32(0)) \o enc_u32(endianness, U32(0))
          \o enc_u32(endianness, U32(65535)) \o enc_u32(endianness, U32(linktype))

\* A 16-byte record header (ts_sec, ts_frac, cap_len, orig_len) and the bytes
\* that follow it.
PcapRecordBytes(endianness, rec) ==
    enc_u32(endianness, U32(1)) \o enc_u32(endianness, U32(500000))
        \o enc_u32(endianness, rec.cap_len) \o enc_u32(endianness, rec.orig_len)
        \o rec.payload

\* An Ethernet frame of 14 bytes with an EtherType no handler knows (0x88B5).
EthernetStub == << 170, 187, 204, 221, 238, 2, 170, 187, 204, 221, 238, 1, 136, 181 >>

PcapMagicLE == << 212, 195, 178, 161 >>

RecordPayloads == { << >>, << 80 >>, PcapMagicLE, EthernetStub }

RecordShapes ==
    { [cap_len |-> U32(Len(p)), orig_len |-> U32(Len(p) + d), payload |-> p] :
          p \in RecordPayloads, d \in {0, 1} }
    \cup { [cap_len |-> U32(1), orig_len |-> U32(0), payload |-> << 80 >>],
           [cap_len |-> U32(9), orig_len |-> U32(9), payload |-> << >>],
           [cap_len |-> U32_MAX, orig_len |-> U32_MAX, payload |-> << >>] }

PcapHeaders ==
    { PcapHeaderBytes(PcapMagicLE, "Little", 1),
      PcapHeaderBytes(PcapMagicLE, "Little", 101),
      PcapHeaderBytes(<< 77, 60, 178, 161 >>, "Little", 1),
      PcapHeaderBytes(<< 161, 178, 195, 212 >>, "Big", 1),
      PcapHeaderBytes(<< 161, 178, 60, 77 >>, "Big", 1) }

HeaderEndianness(h) == IF h[1] = 161 THEN "Big" ELSE "Little"

PcapTails == { << >>, << 0 >>, [i \in 1..15 |-> 0] }

PcapInputs ==
    { h \o Flatten([i \in 1..Len(recs) |-> PcapRecordBytes(HeaderEndianness(h), recs[i])])
        \o tail :
          h \in PcapHeaders, recs \in SeqsUpTo(RecordShapes, MaxRecords),
          tail \in PcapTails }
    \cup { SubSeq(h, 1, k) : h \in PcapHeaders, k \in {4, 23} }

RawInputs == { << >>, << 80 >>, << 80, 73, 78, 71 >>, << 222, 173, 190, 239, 0 >> }

\* A PCAP-NG buffer: the magic and the rest of a first block.  The blocks
\* pcap_parser reads from it are drawn when the stream is read (see below).
ShbMinLen == 12 + 16

NgInputs ==
    { PCAPNG_MAGIC, PCAPNG_MAGIC \o [i \in 1..(ShbMinLen - 4) |-> 0] }

Inputs == RawInputs \cup PcapInputs \cup NgInputs

NoHeader == [endianness |-> "Little", resolution |-> 0, timezone_offset |-> U32(0),
             linktype |-> U32(0), snaplen |-> U32(0)]

\* The locals of a call of process_packet before it runs.
Fresh(d, n) ==
    /\ data = d
    /\ pc = "start"
    /\ format = "None"
    /\ header = NoHeader
    /\ offset = 0
    /\ index = 0
    /\ packets = << >>
    /\ warnings = << >>
    /\ errors = << >>
    /\ interfaces = << >>
    /\ packet_index = 0
    /\ seen = << >>
    /\ packet_pos = << >>
    /\ warning_pos = << >>
    /\ refeeds = n
    /\ panic = "none"

AnalyzeIdle ==
    /\ a_pc = "idle"
    /\ a_input = [linktype |-> U32(0), frame |-> << >>]
    /\ a_result = fallback_analysis(U32(0), 0)
    /\ v6_next_header = 0
    /\ v6_offset = 0
    /\ v6_hops = 0

Init ==
    /\ \E d \in Inputs : Fresh(d, 0)
    /\ AnalyzeIdle

\* ------------------------------------------------------------- dispatcher

\* Return from process_packet with the given result.
Return(result) ==
    /\ pc' = "done"
    /\ packets' = result.packets
    /\ warnings' = result.warnings
    /\ errors' = result.errors

\* process_packet, data.is_empty()
ProcessEmpty ==
    /\ pc = "start"
    /\ data = << >>
    /\ Return(PacketProcessingResult(<< >>, << Lit("Empty payload provided") >>, << >>))
    /\ warning_pos' = << 0 >>
    /\ UNCHANGED << data, format, header, offset, index, interfaces, packet_index,
                    seen, packet_pos, refeeds, panic, an_vars >>

\* The position of the raw packet in its input: the start of the buffer.
RawPosition == << 0 >>

\* process_packet, CaptureFormat::Raw
ProcessRaw ==
    /\ pc = "start"
    /\ data # << >>
    /\ detect_format(data) = "Raw"
    /\ format' = "Raw"
    /\ Return(process_raw_payload(data))
    /\ packet_pos' = RawPosition
    /\ UNCHANGED << data, header, offset, index, interfaces, packet_index, seen,
                    warning_pos, refeeds, panic, an_vars >>

\* process_packet, CaptureFormat::Pcap, parse_pcap_header answers Ok:
\* process_pcap enters its record loop.
ProcessPcap ==
    /\ pc = "start"
    /\ data # << >>
    /\ detect_format(data) = "Pcap"
    /\ parse_pcap_header(data).ok
    /\ format' = "Pcap"
    /\ header' = parse_pcap_header(data).val.header
    /\ offset' = parse_pcap_header(data).val.offset
    /\ index' = 0
    /\ pc' = "pcap_loop"
    /\ UNCHANGED << data, packets, warnings, errors, interfaces, packet_index, seen,
                    packet_pos, warning_pos, refeeds, panic, an_vars >>

\* process_packet, CaptureFormat::Pcap, process_pcap answers Err.
ProcessPcapError ==
    /\ pc = "start"
    /\ data # << >>
    /\ detect_format(data) = "Pcap"
    /\ ~ parse_pcap_header(data).ok
    /\ format' = "Pcap"
    /\ Return(raw_fallback(data, parse_pcap_header(data).err))
    /\ packet_pos' = RawPosition
    /\ UNCHANGED << data, header, offset, index, interfaces, packet_index, seen,
                    warning_pos, refeeds, panic, an_vars >>

\* ----------------------------------------------------- the legacy PCAP loop

\* Mutant: equal lengths count as truncated.
is_truncated_or_equal(captured, original) == ~ U32Lt(original, captured)

\* captured < original: "orig_len > cap_len" in process_pcap,
\* "caplen < origlen" and "origlen > payload.len()" in process_pcapng.
is_truncated(captured, original) == U32Lt(captured, original)

truncation_warning(n, captured, original) ==
    Lit("Packet ") \o Dec(n) \o Lit(" truncated (captured ") \o Dec32(captured)
        \o Lit(" of ") \o Dec32(original) \o Lit(" bytes)")

exceeds_warning(n) == Lit("Packet ") \o Dec(n) \o Lit(" header exceeds capture length")

\* "offset + cap_len > data.len()", on the sum as the usize holds it.
exceeds_capture(sum, len) == U32Gt(sum, U32(len))

\* The analysis of a payload, with the truncation treatment.
analyze_captured(linktype, payload, captured, original) ==
    IF is_truncated(captured, original)
    THEN mark_truncated(analyze_payload(linktype, payload))
    ELSE analyze_payload(linktype, payload)

\* Mutant: the advertised original length is stored as the packet's length.
pcap_metadata_orig_len(analysis, cap_len, orig_len) == PacketMetadata(analysis, orig_len)

\* process_pcap's PacketMetadata { .., length: cap_len }
pcap_metadata(analysis, cap_len, orig_len) == PacketMetadata(analysis, cap_len)

\* One iteration of "while offset + 16 <= data.len()", as a function of the
\* locals.  overflow_checks is the build's setting: with it "offset + cap_len"
\* panics on overflow, without it the sum wraps.
pcap_record(d, hdr, off, idx, overflow_checks) ==
    LET block == Slice(d, off, off + 16)
        after == off + 16
        cap_len == read_u32(hdr.endianness, Slice(block, 8, 12))
        orig_len == read_u32(hdr.endianness, Slice(block, 12, 16))
        sum == usize_add(U32(after), cap_len)
    IN  IF sum.overflow /\ overflow_checks
        THEN [kind |-> "panic", panic |-> "attempt to add with overflow"]
        ELSE IF exceeds_capture(sum.val, Len(d))
        THEN [kind |-> "break", warning |-> exceeds_warning(idx + 1)]
        ELSE IF U32Lt(sum.val, U32(after))
        THEN [kind |-> "panic", panic |-> "slice index starts after its end"]
        ELSE LET payload == Slice(d, after, ToInt(sum.val))
                 analysis == analyze_captured(hdr.linktype, payload, cap_len, orig_len)
             IN  [kind |-> "emit",
                  truncated |-> is_truncated(cap_len, orig_len),
                  warning |-> truncation_warning(idx + 1, cap_len, orig_len),
                  packet |-> create_packet(pcap_metadata(analysis, cap_len, orig_len),
                                           payload),
                  offset |-> ToInt(sum.val)]

\* Mutant: the record's packet is pushed and offset is left where it was.
PcapRecord_stuck ==
    /\ pc = "pcap_loop"
    /\ offset + 16 <= Len(data)
    /\ \E overflow_checks \in BOOLEAN :
         LET r == pcap_record(data, header, offset, index, overflow_checks) IN
         /\ r.kind = "emit"
         /\ packets' = push(packets, r.packet)
         /\ warnings' = IF r.truncated THEN push(warnings, r.warning) ELSE warnings
         /\ warning_pos' = IF r.truncated THEN Append(warning_pos, offset)
                           ELSE warning_pos
         /\ packet_pos' = Append(packet_pos, offset)
         /\ index' = index + 1
    /\ UNCHANGED << data, pc, format, header, offset, errors, interfaces, packet_index,
                    seen, refeeds, panic, an_vars >>

\* A record is read and its packet pushed.
PcapRecord ==
    /\ pc = "pcap_loop"
    /\ offset + 16 <= Len(data)
    /\ \E overflow_checks \in BOOLEAN :
         LET r == pcap_record(data, header, offset, index, overflow_checks) IN
         /\ r.kind = "emit"
         /\ packets' = push(packets, r.packet)
         /\ warnings' = IF r.truncated THEN push(warnings, r.warning) ELSE warnings
         /\ warning_pos' = IF r.truncated THEN Append(warning_pos, offset)
                           ELSE warning_pos
         /\ packet_pos' = Append(packet_pos, offset)
         /\ offset' = r.offset
         /\ index' = index + 1
    /\ UNCHANGED << data, pc, format, header, errors, interfaces, packet_index, seen,
                    refeeds, panic, an_vars >>

\* A record header's cap_len exceeds the buffer: the warning, and break.
PcapRecordExceeds ==
    /\ pc = "pcap_loop"
    /\ offset + 16 <= Len(data)
    /\ \E overflow_checks \in BOOLEAN :
         LET r == pcap_record(data, header, offset, index, overflow_checks) IN
         /\ r.kind = "break"
         /\ Return(PacketProcessingResult(packets, push(warnings, r.warning), << >>))
         /\ warning_pos' = Append(warning_pos, offset)
    /\ offset' = offset + 16
    /\ UNCHANGED << data, format, header, index, interfaces, packet_index, seen,
                    packet_pos, refeeds, panic, an_vars >>

\* The iteration panics: process_packet does not return.
PcapRecordPanic ==
    /\ pc = "pcap_loop"
    /\ offset + 16 <= Len(data)
    /\ \E overflow_checks \in BOOLEAN :
         LET r == pcap_record(data, header, offset, index, overflow_checks) IN
         /\ r.kind = "panic"
         /\ panic' = r.panic
    /\ pc' = "panicked"
    /\ offset' = offset + 16
    /\ UNCHANGED << data, format, header, index, packets, warnings, errors, interfaces,
                    packet_index, seen, packet_pos, warning_pos, refeeds, an_vars >>

\* Mutant: bytes left over after the last record are reported in a warning.
PcapEnd_warns ==
    /\ pc = "pcap_loop"
    /\ ~ (offset + 16 <= Len(data))
    /\ Return(PacketProcessingResult(packets,
              IF offset < Len(data)
              THEN push(warnings, Lit("Trailing bytes after the last record"))
              ELSE warnings,
              << >>))
    /\ UNCHANGED << data, format, header, offset, index, interfaces, packet_index,
                    seen, packet_pos, warning_pos, refeeds, panic, an_vars >>

\* The loop condition fails: Ok(PacketProcessingResult { .. }).
PcapEnd ==
    /\ pc = "pcap_loop"
    /\ ~ (offset + 16 <= Len(data))
    /\ Return(PacketProcessingResult(packets, warnings, << >>))
    /\ UNCHANGED << data, format, header, offset, index, interfaces, packet_index,
                    seen, packet_pos, warning_pos, refeeds, panic, an_vars >>

\* ------------------------------------------------- the PCAP-NG block stream

\* pcap_parser is not part of this crate.  What its PcapNGSlice yields is an
\* input of the model: each call of slice.next() draws a block, an error or
\* the end of the stream.  It guarantees that the first block of a buffer
\* from_slice accepted is a Section Header, and that a buffer shorter than a
\* Section Header is refused.

NgBlock(kind) ==
    [kind |-> kind, linktype |-> 0, ts_offset |-> 0, ts_resolution |-> None,
     if_id |-> 0, caplen |-> U32(0), origlen |-> U32(0), data |-> << >>,
     err |-> [kind |-> "none", text |-> << >>]]

SectionHeaderBlocks == { NgBlock("SectionHeader") }

InterfaceDescriptionBlocks ==
    { [NgBlock("InterfaceDescription") EXCEPT !.linktype = 1],
      [NgBlock("InterfaceDescription") EXCEPT
          !.linktype = 101, !.ts_resolution = Some(1000000000)] }

\* Enhanced Packet blocks: the packet data is padded to 32 bits.
EnhancedPacketBlocks ==
    { [NgBlock("EnhancedPacket") EXCEPT
          !.if_id = i, !.caplen = U32(c[1]), !.origlen = U32(c[2]), !.data = c[3]] :
      i \in {0, 1},
      c \in { << 1, 1, << 80, 0, 0, 0 >> >>, << 4, 9, PCAPNG_MAGIC >> } }

SimplePacketBlocks ==
    { [NgBlock("SimplePacket") EXCEPT !.origlen = U32(c[1]), !.data = c[2]] :
      c \in { << 1, << 80, 0, 0, 0 >> >>, << 9, PcapMagicLE >> } }

\* Any other block of the format (name resolution, statistics, ...).
OtherBlocks == { NgBlock("Other") }

\* nom::Err<PcapError>
NomErrors ==
    { [kind |-> "Incomplete", text |-> << >>],
      [kind |-> "Error", text |-> Lit("PcapError")] }

describe_nom_error(err) ==
    IF err.kind = "Incomplete" THEN Lit("Incomplete PCAPNG data") ELSE err.text

\* PcapNGPacketBlock::packet_data of an Enhanced Packet block
epb_packet_data(epb) ==
    IF U32Lt(epb.caplen, U32(Len(epb.data)))
    THEN Slice(epb.data, 0, ToInt(epb.caplen)) ELSE epb.data

\* PcapNGPacketBlock::packet_data of a Simple Packet block
spb_packet_data(spb) ==
    IF U32Lt(spb.origlen, U32(Len(spb.data)))
    THEN Slice(spb.data, 0, ToInt(spb.origlen)) ELSE spb.data

InterfaceInfo(linktype, ts_offset, ts_resolution) ==
    [linktype |-> linktype, ts_offset |-> ts_offset, ts_resolution |-> ts_resolution]

from_block(block) ==
    InterfaceInfo(U32(block.linktype), block.ts_offset,
                  IF block.ts_resolution.some THEN block.ts_resolution.val ELSE 1000000)

\* interfaces.get(i)
get(vec, i) == IF i < Len(vec) THEN Some(vec[i + 1]) ELSE None

unknown_interface_warning(n, if_id) ==
    Lit("Enhanced packet ") \o Dec(n) \o Lit(" references unknown interface ")
        \o Dec(if_id)

\* Mutant: the Section Header leaves the interface table as it is.
on_section_header_keep(ifaces) == ifaces

\* Block::SectionHeader(_) => interfaces.clear()
on_section_header(ifaces) == << >>

\* Block::InterfaceDescription(idb) => interfaces.push(..)
on_interface_description(ifaces, idb) == push(ifaces, from_block(idb))

\* process_packet, CaptureFormat::PcapNg, PcapNGSlice::from_slice answers Ok.
ProcessPcapNg ==
    /\ pc = "start"
    /\ data # << >>
    /\ detect_format(data) = "PcapNg"
    /\ Len(data) >= ShbMinLen
    /\ format' = "PcapNg"
    /\ interfaces' = << >>
    /\ packet_index' = 0
    /\ seen' = << >>
    /\ pc' = "ng_loop"
    /\ UNCHANGED << data, header, offset, index, packets, warnings, errors,
                    packet_pos, warning_pos, refeeds, panic, an_vars >>

\* process_packet, CaptureFormat::PcapNg, from_slice answers Err.
ProcessPcapNgError ==
    /\ pc = "start"
    /\ data # << >>
    /\ detect_format(data) = "PcapNg"
    /\ format' = "PcapNg"
    /\ \E err \in NomErrors : Return(raw_fallback(data, describe_nom_error(err)))
    /\ packet_pos' = RawPosition
    /\ UNCHANGED << data, header, offset, index, interfaces, packet_index, seen,
                    warning_pos, refeeds, panic, an_vars >>

\* slice.next() yields a block: the stream is bounded by MaxBlocks.
Yields(block) ==
    /\ pc = "ng_loop"
    /\ Len(seen) < MaxBlocks
    /\ seen = << >> => block.kind = "SectionHeader"
    /\ seen' = Append(seen, block)

NgSectionHeader ==
    /\ \E block \in SectionHeaderBlocks :
         /\ Yields(block)
         /\ interfaces' = on_section_header(interfaces)
    /\ UNCHANGED << data, pc, format, header, offset, index, packets, warnings, errors,
                    packet_index, packet_pos, warning_pos, refeeds, panic, an_vars >>

NgInterfaceDescription ==
    /\ \E idb \in InterfaceDescriptionBlocks :
         /\ Yields(idb)
         /\ interfaces' = on_interface_description(interfaces, idb)
    /\ UNCHANGED << data, pc, format, header, offset, index, packets, warnings, errors,
                    packet_index, packet_pos, warning_pos, refeeds, panic, an_vars >>

\* Block::EnhancedPacket(epb) with a known interface
NgEnhancedPacket ==
    /\ \E epb \in EnhancedPacketBlocks :
         LET info == get(interfaces, epb.if_id)
             payload == epb_packet_data(epb)
             analysis == analyze_captured(info.val.linktype, payload,
                                          epb.caplen, epb.origlen)
         IN  /\ Yields(epb)
             /\ info.some
             /\ packet_index' = packet_index + 1
             /\ warnings' = IF is_truncated(epb.caplen, epb.origlen)
                            THEN push(warnings,
                                     truncation_warning(packet_index + 1,
                                                        epb.caplen, epb.origlen))
                            ELSE warnings
             /\ warning_pos' = IF is_truncated(epb.caplen, epb.origlen)
                               THEN Append(warning_pos, Len(seen) + 1)
                               ELSE warning_pos
             /\ packets' = push(packets,
                    create_packet(PacketMetadata(analysis, U32(Len(payload))), payload))
             /\ packet_pos' = Append(packet_pos, Len(seen) + 1)
    /\ UNCHANGED << data, pc, format, header, offset, index, errors, interfaces,
                    refeeds, panic, an_vars >>

\* Mutant: the skipped block is not counted in packet_index.
NgEnhancedPacketUnknown_uncounted ==
    /\ \E epb \in EnhancedPacketBlocks :
         /\ Yields(epb)
         /\ ~ get(interfaces, epb.if_id).some
         /\ warnings' = push(warnings,
                unknown_interface_warning(packet_index + 1, epb.if_id))
         /\ warning_pos' = Append(warning_pos, Len(seen) + 1)
    /\ UNCHANGED << data, pc, format, header, offset, index, packets, errors,
                    interfaces, packet_index, packet_pos, refeeds, panic, an_vars >>

\* Block::EnhancedPacket(epb) whose if_id is not in the table: warn, continue
NgEnhancedPacketUnknown ==
    /\ \E epb \in EnhancedPacketBlocks :
         /\ Yields(epb)
         /\ ~ get(interfaces, epb.if_id).some
         /\ packet_index' = packet_index + 1
         /\ warnings' = push(warnings,
                unknown_interface_warning(packet_index + 1, epb.if_id))
         /\ warning_pos' = Append(warning_pos, Len(seen) + 1)
    /\ UNCHANGED << data, pc, format, header, offset, index, packets, errors,
                    interfaces, packet_pos, refeeds, panic, an_vars >>

DefaultInterface == InterfaceInfo(U32(1), 0, 1000000)

NgSimplePacket ==
    /\ \E spb \in SimplePacketBlocks :
         LET first == get(interfaces, 0)
             info == IF first.some THEN first.val ELSE DefaultInterface
             payload == spb_packet_data(spb)
             analysis == analyze_captured(info.linktype, payload,
                                          U32(Len(payload)), spb.origlen)
         IN  /\ Yields(spb)
             /\ packet_index' = packet_index + 1
             /\ warnings' = IF is_truncated(U32(Len(payload)), spb.origlen)
                            THEN push(warnings,
                                     truncation_warning(packet_index + 1,
                                                        U32(Len(payload)), spb.origlen))
                            ELSE warnings
             /\ warning_pos' = IF is_truncated(U32(Len(payload)), spb.origlen)
                               THEN Append(warning_pos, Len(seen) + 1)
                               ELSE warning_pos
             /\ packets' = push(packets,
                    create_packet(PacketMetadata(analysis, U32(Len(payload))), payload))
             /\ packet_pos' = Append(packet_pos, Len(seen) + 1)
    /\ UNCHANGED << data, pc, format, header, offset, index, errors, interfaces,
                    refeeds, panic, an_vars >>

\* "_ => {}": a block of another kind
NgOtherBlock ==
    /\ \E block \in OtherBlocks : Yields(block)
    /\ UNCHANGED << data, pc, format, header, offset, index, packets, warnings, errors,
                    interfaces, packet_index, packet_pos, warning_pos, refeeds, panic,
                    an_vars >>

\* Mutant: the stream's error is reported through errors.
on_stream_error_as_error(p, w, err) ==
    PacketProcessingResult(p, w, << describe_nom_error(err) >>)

\* Err(err) => { warnings.push(describe_nom_error(err)); break; } and the
\* Ok(PacketProcessingResult { .. }) after the loop.
on_stream_error(p, w, err) ==
    PacketProcessingResult(p, push(w, describe_nom_error(err)), << >>)

\* slice.next() yields Err(err).
NgError ==
    /\ pc = "ng_loop"
    /\ seen # << >>
    /\ \E err \in NomErrors :
         /\ seen' = Append(seen, [NgBlock("Err") EXCEPT !.err = err])
         /\ Return(on_stream_error(packets, warnings, err))
    /\ warning_pos' = Append(warning_pos, Len(seen) + 1)
    /\ UNCHANGED << data, format, header, offset, index, interfaces, packet_index,
                    packet_pos, refeeds, panic, an_vars >>

\* slice.next() yields None: Ok(PacketProcessingResult { .. }).
NgEnd ==
    /\ pc = "ng_loop"
    /\ seen # << >>
    /\ Return(PacketProcessingResult(packets, warnings, << >>))
    /\ UNCHANGED << data, format, header, offset, index, interfaces, packet_index,
                    seen, packet_pos, warning_pos, refeeds, panic, an_vars >>

\* ------------------------------------------------------------- feeding back

\* A payload of the result is passed to process_packet on its own.
Refeed ==
    /\ pc = "done"
    /\ refeeds < MaxRefeed
    /\ \E i \in 1..Len(packets) : data' = packets[i].payload
    /\ pc' = "start"
    /\ format' = "None"
    /\ header' = NoHeader
    /\ offset' = 0
    /\ index' = 0
    /\ packets' = << >>
    /\ warnings' = << >>
    /\ errors' = << >>
    /\ interfaces' = << >>
    /\ packet_index' = 0
    /\ seen' = << >>
    /\ packet_pos' = << >>
    /\ warning_pos' = << >>
    /\ refeeds' = refeeds + 1
    /\ UNCHANGED << panic, an_vars >>

Next ==
    \/ ProcessEmpty
    \/ ProcessRaw
    \/ ProcessPcap
    \/ ProcessPcapError
    \/ PcapRecord
    \/ PcapRecordExceeds
    \/ PcapRecordPanic
    \/ PcapEnd
    \/ ProcessPcapNg
    \/ ProcessPcapNgError
    \/ NgSectionHeader
    \/ NgInterfaceDescription
    \/ NgEnhancedPacket
    \/ NgEnhancedPacketUnknown
    \/ NgSimplePacket
    \/ NgOtherBlock
    \/ NgError
    \/ NgEnd
    \/ Refeed

Spec == Init /\ [][Next]_vars

\* ----------------------------------------------------- the dissector alone

Zeros(n) == [i \in 1..n |-> 0]

\* An IPv4 header (version and IHL, total length, protocol, 10.0.0.1 to
\* 10.0.0.2), options up to the IHL, and what follows.
IPv4Packet(version_ihl, total_length, protocol, rest) ==
    << version_ihl, 0, total_length \div 256, total_length % 256, 0, 0, 0, 0,
       64, protocol, 0, 0, 10, 0, 0, 1, 10, 0, 0, 2 >> \o rest

\* An IPv6 header (first byte, next header, ::1 to ::2) and what follows.
IPv6Packet(first, next_header, rest) ==
    << first, 0, 0, 0, Len(rest) \div 256, Len(rest) % 256, next_header, 64 >>
        \o Zeros(15) \o << 1 >> \o Zeros(15) \o << 2 >> \o rest

\* An Ethernet ARP packet for IPv4: 192.168.1.1 asks for or answers 192.168.1.2.
ArpPacket(hw_type, operation) ==
    << 0, hw_type, 8, 0, 6, 4, 0, operation >>
        \o << 170, 170, 170, 170, 170, 1 >> \o << 192, 168, 1, 1 >>
        \o Zeros(6) \o << 192, 168, 1, 2 >>

EthernetFrame(ethertype, inner) ==
    << 170, 187, 204, 221, 238, 2, 170, 187, 204, 221, 238, 1,
       ethertype \div 256, ethertype % 256 >> \o inner

NullFrame(family, inner) == enc_u32("Little", U32(family)) \o inner

\* Source port 1000, destination port 2000, and four more bytes.
Ports == << 3, 232, 7, 208, 0, 0, 0, 0 >>

IPv4Samples ==
    { IPv4Packet(69, 28, 17, Ports),            \* UDP
      IPv4Packet(69, 22, 1, << 8, 0 >>),         \* ICMP echo request
      IPv4Packet(69, 20, 47, << >>),             \* GRE, no payload
      IPv4Packet(70, 32, 6, Zeros(4) \o Ports),  \* TCP after one option word
      IPv4Packet(69, 28, 17, << >>),             \* total length past the buffer
      SubSeq(IPv4Packet(69, 28, 17, Ports), 1, 19),   \* short
      IPv4Packet(101, 28, 17, Ports),            \* version 6 in an IPv4 slot
      IPv4Packet(68, 28, 17, Ports),             \* IHL below 5
      IPv4Packet(79, 28, 17, Ports),             \* IHL past the buffer
      IPv4Packet(69, 19, 17, Ports) }            \* total length below the IHL

IPv6Samples ==
    { IPv6Packet(96, 17, Ports),                 \* UDP
      IPv6Packet(96, 58, << 128, 0 >>),          \* ICMPv6 echo request
      IPv6Packet(96, 0, << 6, 0 >> \o Zeros(6) \o Ports),   \* hop-by-hop, TCP
      IPv6Packet(96, 44, << 17, 0 >> \o Zeros(6) \o Ports), \* fragment, UDP
      IPv6Packet(96, 51, << 6, 0 >> \o Zeros(6) \o Ports),  \* AH, TCP
      IPv6Packet(96, 43, << 17, 9 >> \o Zeros(6)),          \* routing, overrun
      SubSeq(IPv6Packet(96, 17, Ports), 1, 39),  \* short
      IPv6Packet(64, 17, Ports) }                \* version 4 in an IPv6 slot

ArpSamples ==
    { ArpPacket(1, 1), ArpPacket(1, 2), ArpPacket(1, 3),
      ArpPacket(6, 1),                           \* not Ethernet hardware
      SubSeq(ArpPacket(1, 1), 1, 27) }           \* short

AnalyzeFrames ==
    { << >>, << 69 >>, << 2, 0, 0 >>, EthernetStub, SubSeq(EthernetStub, 1, 13) }
    \cup IPv4Samples \cup IPv6Samples
    \cup { EthernetFrame(2048, p) : p \in IPv4Samples }
    \cup { EthernetFrame(34525, p) : p \in IPv6Samples }
    \cup { EthernetFrame(2054, p) : p \in ArpSamples }
    \cup { EthernetFrame(2048, << >>), EthernetFrame(2054, << >>) }
    \cup { NullFrame(2, IPv4Packet(69, 28, 17, Ports)),
           NullFrame(2, << 69 >>),
           NullFrame(24, IPv6Packet(96, 17, Ports)),
           NullFrame(24, IPv4Packet(69, 28, 17, Ports)),
           NullFrame(7, IPv4Packet(69, 28, 17, Ports)) }

AnalyzeLinktypes == { U32(0), U32(1), U32(101), U32(228), U32(229), U32(147) }

DecoderIdle ==
    /\ data = << >>
    /\ pc = "idle"
    /\ format = "None"
    /\ header = NoHeader
    /\ offset = 0
    /\ index = 0
    /\ packets = << >>
    /\ warnings = << >>
    /\ errors = << >>
    /\ interfaces = << >>
    /\ packet_index = 0
    /\ seen = << >>
    /\ packet_pos = << >>
    /\ warning_pos = << >>
    /\ refeeds = 0
    /\ panic = "none"

InitAnalyze ==
    /\ DecoderIdle
    /\ a_pc = "call"
    /\ a_input \in [linktype : AnalyzeLinktypes, frame : AnalyzeFrames]
    /\ a_result = fallback_analysis(U32(0), 0)
    /\ v6_next_header = 0
    /\ v6_offset = 0
    /\ v6_hops = 0

\* analyze_payload(linktype, payload) is called and returns.
Analyze ==
    /\ a_pc = "call"
    /\ a_result' = analyze_payload(a_input.linktype, a_input.frame)
    /\ a_pc' = "returned"
    /\ UNCHANGED << a_input, v6_vars, dec_vars >>

NextAnalyze == Analyze

SpecAnalyze == InitAnalyze /\ [][NextAnalyze]_vars

\* ------------------------------------------- the IPv6 extension header loop

\* analyze_payload(229, packet) with parse_ipv6_packet run one loop iteration
\* at a time.

\* The extension headers the chains are made of: the three kinds that carry
\* a length in 8-byte units, the fragment header, and the authentication header.
ExtHeaders ==
    { [kind |-> 0, len |-> 0], [kind |-> 43, len |-> 1], [kind |-> 60, len |-> 0],
      [kind |-> 44, len |-> 0], [kind |-> 51, len |-> 1] }

ExtHeaderBytes(h, next) ==
    << next, h.len >> \o
        Zeros(CASE h.kind \in {0, 43, 60} -> (h.len + 1) * 8 - 2
                [] h.kind = 44 -> 6
                [] h.kind = 51 -> (h.len + 2) * 4 - 2)

\* The bytes of a chain of extension headers that ends in the protocol last.
RECURSIVE ChainBytes(_, _)
ChainBytes(chain, last) ==
    IF chain = << >> THEN << >>
    ELSE ExtHeaderBytes(chain[1], IF Len(chain) = 1 THEN last ELSE chain[2].kind)
             \o ChainBytes(Tail(chain), last)

\* One header more than the loop will skip.
MaxChain == ExtensionHeaderHops + 1

ChainProtocols == {6, 58}

\* The packet of a chain, whole with a transport header, or ending with the
\* chain, or with the last bytes of the chain missing.
ChainPackets(chain, last) ==
    LET first == IF chain = << >> THEN last ELSE chain[1].kind
        whole == IPv6Packet(96, first, ChainBytes(chain, last))
    IN  { whole \o Ports, whole,
          SubSeq(whole, 1, Len(whole) - 1), SubSeq(whole, 1, Len(whole) - 5) }

\* Every chain of up to two headers, and the longer chains of the three
\* headers that differ in how their length is computed.
Chains ==
    SeqsUpTo(ExtHeaders, 2)
    \cup SeqsUpTo({ h \in ExtHeaders : h.kind \in {0, 44, 51} }, MaxChain)

Ipv6Inputs ==
    UNION { ChainPackets(chain, last) : chain \in Chains, last \in ChainProtocols }
    \cup { IPv6Packet(64, 17, Ports) }

InitIpv6 ==
    /\ DecoderIdle
    /\ a_pc = "call"
    /\ a_input \in [linktype : { U32(229) }, frame : Ipv6Inputs]
    /\ a_result = fallback_analysis(U32(0), 0)
    /\ v6_next_header = 0
    /\ v6_offset = 0
    /\ v6_hops = 0

\* The dissector returns the analysis, or the fallback for None.
Ipv6Answer(option) ==
    /\ a_result' = unwrap_or_fallback(option, a_input.linktype, Len(a_input.frame))
    /\ a_pc' = "returned"

\* parse_ipv6_packet: "return None" of the length and version checks.
Ipv6Reject ==
    /\ a_pc = "call"
    /\ ~ ipv6_header_ok(a_input.frame)
    /\ Ipv6Answer(None)
    /\ UNCHANGED << a_input, v6_vars, dec_vars >>

\* parse_ipv6_packet up to the loop.
Ipv6Enter ==
    /\ a_pc = "call"
    /\ ipv6_header_ok(a_input.frame)
    /\ a_pc' = "ext_loop"
    /\ v6_next_header' = a_input.frame[7]
    /\ v6_offset' = 40
    /\ v6_hops' = 0
    /\ UNCHANGED << a_input, a_result, dec_vars >>

\* An iteration that skips an extension header.
Ipv6Hop ==
    /\ a_pc = "ext_loop"
    /\ v6_hops < ExtensionHeaderHops
    /\ LET step == extension_header_step(a_input.frame, v6_next_header, v6_offset)
       IN  /\ ~ step.break
           /\ v6_next_header' = step.next_header
           /\ v6_offset' = step.offset
    /\ v6_hops' = v6_hops + 1
    /\ UNCHANGED << a_pc, a_input, a_result, dec_vars >>

\* An iteration that breaks.
Ipv6Break ==
    /\ a_pc = "ext_loop"
    /\ v6_hops < ExtensionHeaderHops
    /\ extension_header_step(a_input.frame, v6_next_header, v6_offset).break
    /\ a_pc' = "ext_done"
    /\ UNCHANGED << a_input, a_result, v6_vars, dec_vars >>

\* The range 0..4 is exhausted.
Ipv6LoopEnd ==
    /\ a_pc = "ext_loop"
    /\ v6_hops >= ExtensionHeaderHops
    /\ a_pc' = "ext_done"
    /\ UNCHANGED << a_input, a_result, v6_vars, dec_vars >>

\* parse_ipv6_packet after the loop.
Ipv6Return ==
    /\ a_pc = "ext_done"
    /\ Ipv6Answer(ipv6_finish(a_input.frame, v6_next_header, v6_offset))
    /\ UNCHANGED << a_input, v6_vars, dec_vars >>

NextIpv6 ==
    \/ Ipv6Reject
    \/ Ipv6Enter
    \/ Ipv6Hop
    \/ Ipv6Break
    \/ Ipv6LoopEnd
    \/ Ipv6Return

SpecIpv6 == InitIpv6 /\ [][NextIpv6]_vars

\* =================================================================== claims

Last(seq) == seq[Len(seq)]

IsPrefix(a, b) == Len(a) <= Len(b) /\ SubSeq(b, 1, Len(a)) = a

Range(f) == { f[i] : i \in DOMAIN f }

Decoding == format \in {"Pcap", "PcapNg"} /\ pc \in {"pcap_loop", "ng_loop"}

\* The result is that of a decoder that answered Ok.
Decoded == format \in {"Pcap", "PcapNg"} /\ pc = "done" /\ errors = << >>

HasTruncatedSuffix(summary) ==
    summary # << >> /\ Last(summary) = [s |-> " [truncated]", n |-> 0]

IsTruncationWarning(w) ==
    Len(w) >= 3 /\ w[1].s = "Packet " /\ w[3].s = " truncated (captured "

\* The blocks after the most recent Section Header of a block sequence.
CurrentSection(blocks) ==
    LET starts == { i \in 1..Len(blocks) : blocks[i].kind = "SectionHeader" }
        start == IF starts = {} THEN 0
                 ELSE CHOOSE i \in starts : \A j \in starts : j <= i
    IN  SubSeq(blocks, start + 1, Len(blocks))

IsInterfaceBlock(b) == b.kind = "InterfaceDescription"

IsPacketBlock(b) == b.kind \in {"EnhancedPacket", "SimplePacket"}

SectionInterfaces(blocks) == SelectSeq(CurrentSection(blocks), IsInterfaceBlock)

PacketBlockCount(blocks) == Len(SelectSeq(blocks, IsPacketBlock))

UnknownInterfaceText(n, id) ==
    << [s |-> "Enhanced packet ", n |-> 0], [s |-> "{}", n |-> n],
       [s |-> " references unknown interface ", n |-> 0], [s |-> "{}", n |-> id] >>

\* ---- C1

C1_Table ==
    (format = "PcapNg" /\ pc \in {"ng_loop", "done"}) =>
        LET idbs == SectionInterfaces(seen) IN
        /\ Len(interfaces) = Len(idbs)
        /\ \A i \in 1..Len(idbs) : interfaces[i].linktype = U32(idbs[i].linktype)

C1_Lookup ==
    (pc = "ng_loop" /\ Len(seen') = Len(seen) + 1) =>
        LET b == Last(seen')
            table == SectionInterfaces(seen)
            n == PacketBlockCount(seen')
        IN  /\ (b.kind = "EnhancedPacket" /\ b.if_id >= Len(table)) =>
                  /\ packets' = packets
                  /\ warnings' = Append(warnings, UnknownInterfaceText(n, b.if_id))
                  /\ pc' = "ng_loop"
            /\ (b.kind = "EnhancedPacket" /\ b.if_id < Len(table)) =>
                  /\ Len(packets') = Len(packets) + 1
                  /\ Last(packets').protocol =
                        analyze_payload(U32(table[b.if_id + 1].linktype),
                                        Last(packets').payload).protocol
            /\ b.kind = "SimplePacket" =>
                  /\ Len(packets') = Len(packets) + 1
                  /\ Last(packets').protocol =
                        analyze_payload(IF table = << >> THEN U32(1)
                                        ELSE U32(table[1].linktype),
                                        Last(packets').payload).protocol

\* C1: in process_pcapng the interface table always holds exactly the
\* Interface-Description blocks seen since the most recent Section-Header block,
\* in order; every lookup resolves against that table only; an Enhanced-Packet
\* block whose if_id is not below the table size emits no packet, appends
\* exactly the warning "Enhanced packet {n} references unknown interface {id}",
\* and decoding continues.
C1_SectionScopedInterfaces == [] C1_Table /\ [][C1_Lookup]_vars

\* Two sections: an interface in the first, none in the second, and an
\* Enhanced-Packet block of the second section that names interface 0.
C1_Witness ==
    /\ pc = "ng_loop"
    /\ Len(seen) = 4
    /\ seen[2].kind = "InterfaceDescription"
    /\ seen[3].kind = "SectionHeader"
    /\ seen[4].kind = "EnhancedPacket"
    /\ seen[4].if_id = 0
    /\ packets = << >>
    /\ warnings = << UnknownInterfaceText(1, 0) >>

\* ---- C2

\* C2: every packet of the result, whatever its origin, has a length field equal
\* to the number of bytes of its payload.
C2_LengthIsPayloadLength ==
    \A i \in 1..Len(packets) : packets[i].length = U32(Len(packets[i].payload))

\* A legacy capture decoded to two packets, the second one truncated and with
\* a payload.
C2_Witness ==
    /\ pc = "done"
    /\ format = "Pcap"
    /\ Len(packets) = 2
    /\ packets[2].payload # << >>
    /\ HasTruncatedSuffix(packets[2].summary)

\* ---- C3

\* The captured and the advertised original length of the i-th packet, read
\* from the input at the place the packet came from.
CapturedOf(i) == U32(Len(packets[i].payload))

OriginalOf(i) ==
    IF format = "Pcap"
    THEN read_u32(HeaderEndianness(data), Slice(data, packet_pos[i] + 12, packet_pos[i] + 16))
    ELSE seen[packet_pos[i]].origlen

\* The number {n} of the i-th packet in warnings.
NumberOf(i) ==
    IF format = "Pcap" THEN i ELSE PacketBlockCount(SubSeq(seen, 1, packet_pos[i]))

TruncationText(n, c, o) ==
    << [s |-> "Packet ", n |-> 0], [s |-> "{}", n |-> n],
       [s |-> " truncated (captured ", n |-> 0],
       [s |-> "{}hi", n |-> c[1]], [s |-> "{}lo", n |-> c[2]],
       [s |-> " of ", n |-> 0],
       [s |-> "{}hi", n |-> o[1]], [s |-> "{}lo", n |-> o[2]],
       [s |-> " bytes)", n |-> 0] >>

\* C3: a packet of the legacy PCAP or PCAP-NG decoder carries " [truncated]" and
\* has its warning "Packet {n} truncated (captured {c} of {o} bytes)" exactly
\* when captured < original; there are as many truncation warnings as packets
\* with the suffix.
C3_TruncationContract ==
    (format \in {"Pcap", "PcapNg"} /\ pc \in {"pcap_loop", "ng_loop", "done"}
        /\ errors = << >>) =>
        /\ \A i \in 1..Len(packets) :
              /\ HasTruncatedSuffix(packets[i].summary)
                    <=> U32Lt(CapturedOf(i), OriginalOf(i))
              /\ TruncationText(NumberOf(i), CapturedOf(i), OriginalOf(i))
                    \in Range(warnings)
                    <=> U32Lt(CapturedOf(i), OriginalOf(i))
        /\ Cardinality({ j \in 1..Len(warnings) : IsTruncationWarning(warnings[j]) })
              = Cardinality({ i \in 1..Len(packets) :
                                HasTruncatedSuffix(packets[i].summary) })

\* A PCAP-NG result with a truncated and an untruncated packet.
C3_Witness ==
    /\ pc = "done"
    /\ format = "PcapNg"
    /\ \E i, j \in 1..Len(packets) :
          /\ HasTruncatedSuffix(packets[i].summary)
          /\ ~ HasTruncatedSuffix(packets[j].summary)
    /\ \E j \in 1..Len(warnings) : IsTruncationWarning(warnings[j])

\* ---- C4

\* The record header at offset declares more bytes than follow it.
CapLenExceedsRemaining ==
    U32Gt(read_u32(HeaderEndianness(data), Slice(data, offset + 8, offset + 12)),
          U32(Len(data) - (offset + 16)))

C4_Step ==
    (pc = "pcap_loop" /\ offset + 16 <= Len(data) /\ CapLenExceedsRemaining) =>
        /\ warnings' = Append(warnings,
              << [s |-> "Packet ", n |-> 0], [s |-> "{}", n |-> Len(packets) + 1],
                 [s |-> " header exceeds capture length", n |-> 0] >>)
        /\ packets' = packets
        /\ pc' = "done"
        /\ errors' = << >>

\* C4: in process_pcap a record header whose cap_len exceeds the bytes that
\* remain after it appends "Packet {n} header exceeds capture length", emits no
\* packet, keeps the packets before it, stops the loop and returns success.
C4_ExceedingRecordStops == [][C4_Step]_vars

\* ---- C5

DecoderFailed ==
    \/ format = "Pcap" /\ Len(data) < 24
    \/ format = "PcapNg" /\ seen = << >>

\* C5: for a non-empty input, errors is non-empty exactly when the decoder
\* detect_format selected answered an error; the result is then the raw result
\* for the whole input (one RAW packet holding the buffer, no warnings) with
\* exactly one error; when the decoder succeeds errors is empty.
C5_ErrorsIffDecoderFailed ==
    (pc = "done" /\ data # << >>) =>
        /\ errors # << >> <=> DecoderFailed
        /\ DecoderFailed =>
              /\ Len(packets) = 1
              /\ packets[1].protocol = Lit("RAW")
              /\ packets[1].payload = data
              /\ warnings = << >>
              /\ Len(errors) = 1

\* A buffer with a legacy magic and fewer than 24 bytes was processed.
C5_Witness ==
    /\ pc = "done"
    /\ format = "Pcap"
    /\ Len(data) = 23
    /\ errors = << Lit("PCAP data is too short") >>

\* ---- C6

\* C6: process_packet returns normally for every input: the bounds check of
\* the legacy record loop does not overflow a 32-bit usize, so no slice is
\* taken out of order.
C6_NoPanic == pc # "panicked"

\* ---- C7

OneRawPacket ==
    /\ format = "Raw"
    /\ Len(packets) = 1
    /\ packets[1].protocol = Lit("RAW")

\* C7 as stated: every emitted payload, fed back alone, is handled as Raw and
\* gives exactly one RAW packet, whatever its content.
C7_Original == (refeeds >= 1 /\ pc \in {"done", "panicked"}) => OneRawPacket

\* C7, amended: an emitted payload that is not empty and does not start with
\* a PCAP or PCAP-NG magic, fed back alone, is handled as Raw and gives exactly
\* one packet, with protocol "RAW".
C7_RawPayloadStable ==
    (refeeds >= 1 /\ pc = "done" /\ data # << >>
        /\ (Len(data) < 4
            \/ SubSeq(data, 1, 4) \notin
                  { PCAPNG_MAGIC, << 212, 195, 178, 161 >>, << 77, 60, 178, 161 >>,
                    << 161, 178, 195, 212 >>, << 161, 178, 60, 77 >> }))
        => OneRawPacket

\* The payload of a decoded packet was fed back and came out as one RAW packet.
C7_Witness ==
    /\ refeeds = 1
    /\ pc = "done"
    /\ data = << 80 >>
    /\ OneRawPacket
    /\ packets[1].payload = data

\* ---- C8

\* What the input holds at the place the i-th packet is said to come from.
PayloadAt(i) ==
    IF format = "Pcap"
    THEN Slice(data, packet_pos[i] + 16, packet_pos[i] + 16 + Len(packets[i].payload))
    ELSE IF seen[packet_pos[i]].kind = "EnhancedPacket"
    THEN epb_packet_data(seen[packet_pos[i]])
    ELSE spb_packet_data(seen[packet_pos[i]])

C8_Positional ==
    (format \in {"Pcap", "PcapNg"}
        /\ pc \in {"pcap_loop", "ng_loop", "done", "panicked"} /\ errors = << >>) =>
        /\ Len(packet_pos) = Len(packets)
        /\ Len(warning_pos) = Len(warnings)
        /\ \A i \in 1..Len(packets) : packets[i].payload = PayloadAt(i)
        /\ \A i, j \in 1..Len(packets) : i < j => packet_pos[i] < packet_pos[j]
        /\ \A i, j \in 1..Len(warnings) : i < j => warning_pos[i] <= warning_pos[j]

C8_AppendOnly == Decoding => IsPrefix(packets, packets') /\ IsPrefix(warnings, warnings')

\* C8: in both decoders packets and warnings are append-only and positional: a
\* later packet comes from a later input position, what was appended is never
\* removed, reordered or changed, and warnings are in the order of their causes.
C8_AppendOnlyPositional == [] C8_Positional /\ [][C8_AppendOnly]_vars

\* A legacy capture with two packets and two warnings.
C8_Witness ==
    /\ format = "Pcap"
    /\ pc = "done"
    /\ Len(packets) = 2
    /\ Len(warnings) = 2
    /\ packets[1] # packets[2]
    /\ warnings[1] # warnings[2]

\* ---- C9

ErrorText(err) ==
    IF err.kind = "Incomplete"
    THEN << [s |-> "Incomplete PCAPNG data", n |-> 0] >> ELSE err.text

C9_Stopped ==
    /\ \A i \in 1..(Len(seen) - 1) : seen[i].kind # "Err"
    /\ (seen # << >> /\ Last(seen).kind = "Err") => pc = "done"
    /\ (format = "PcapNg" /\ pc = "done") =>
          /\ errors # << >> <=> seen = << >>
          /\ seen = << >> => Len(packets) = 1 /\ packets[1].protocol = Lit("RAW")

C9_Step ==
    (pc = "ng_loop" /\ Len(seen') = Len(seen) + 1 /\ Last(seen').kind = "Err") =>
        /\ packets' = packets
        /\ warnings' = Append(warnings, ErrorText(Last(seen').err))
        /\ errors' = << >>
        /\ pc' = "done"

\* C9: a parse error of the block stream after the first Section Header goes
\* to warnings, not errors; no further block is consumed, the packets and
\* warnings before it are kept and the decoder returns success; only a failure
\* on the first block is reported through errors, with the raw fallback.
C9_StreamErrorIsWarning == [] C9_Stopped /\ [][C9_Step]_vars

\* The stream failed after a packet and a warning had been emitted.
C9_Witness ==
    /\ pc = "done"
    /\ format = "PcapNg"
    /\ seen # << >>
    /\ Last(seen).kind = "Err"
    /\ Len(packets) >= 1
    /\ Len(warnings) >= 2
    /\ errors = << >>

\* ---- C10

IPv4Malformed(p) ==
    \/ Len(p) < 20
    \/ p[1] \div 16 # 4
    \/ p[1] % 16 < 5
    \/ (p[1] % 16) * 4 > Len(p)
    \/ 256 * p[3] + p[4] < (p[1] % 16) * 4

IPv6Malformed(p) == Len(p) < 40 \/ p[1] \div 16 # 6

ArpMalformed(p) ==
    \/ Len(p) < 28
    \/ SubSeq(p, 1, 6) # << 0, 1, 8, 0, 6, 4 >>

EtherTypeOf(f) == 256 * f[13] + f[14]

\* An Ethernet frame of at least 14 bytes that announces IPv4, IPv6 or ARP and
\* carries a short or malformed header of that protocol.
EthernetInnerMalformed(f) ==
    LET inner == SubSeq(f, 15, Len(f)) IN
    \/ EtherTypeOf(f) = 2048 /\ IPv4Malformed(inner)
    \/ EtherTypeOf(f) = 34525 /\ IPv6Malformed(inner)
    \/ EtherTypeOf(f) = 2054 /\ ArpMalformed(inner)

NullMalformed(f) ==
    \/ Len(f) < 4
    \/ SubSeq(f, 1, 4) \notin { << 2, 0, 0, 0 >>, << 24, 0, 0, 0 >> }
    \/ f[1] = 2 /\ IPv4Malformed(SubSeq(f, 5, Len(f)))
    \/ f[1] = 24 /\ IPv6Malformed(SubSeq(f, 5, Len(f)))

RawIpMalformed(f) ==
    \/ f = << >>
    \/ f[1] \div 16 \notin {4, 6}
    \/ f[1] \div 16 = 4 /\ IPv4Malformed(f)
    \/ f[1] \div 16 = 6 /\ IPv6Malformed(f)

\* Too short or malformed for the handler the link type selects.
Malformed(linktype, f) ==
    CASE linktype = << 0, 1 >> -> Len(f) < 14 \/ EthernetInnerMalformed(f)
      [] linktype = << 0, 0 >> -> NullMalformed(f)
      [] linktype \in { << 0, 101 >>, << 0, 228 >> } -> IPv4Malformed(f)
      [] linktype = << 0, 229 >> -> IPv6Malformed(f)
      [] OTHER -> RawIpMalformed(f)

FallbackText(linktype, len) ==
    [source |-> << [s |-> "U+2014", n |-> 0] >>,
     destination |-> << [s |-> "U+2014", n |-> 0] >>,
     protocol |-> << [s |-> "LINKTYPE ", n |-> 0],
                     [s |-> "{}hi", n |-> linktype[1]],
                     [s |-> "{}lo", n |-> linktype[2]] >>,
     summary |-> << [s |-> "Captured ", n |-> 0], [s |-> "{}", n |-> len],
                    [s |-> " bytes (linktype ", n |-> 0],
                    [s |-> "{}hi", n |-> linktype[1]],
                    [s |-> "{}lo", n |-> linktype[2]], [s |-> ")", n |-> 0] >>]

IsAnalysis(a) ==
    /\ DOMAIN a = {"source", "destination", "protocol", "summary"}
    /\ \A k \in DOMAIN a : a[k] # << >>

\* C10 as stated: analyze_payload returns the fallback analysis for every frame
\* that is short or malformed for its handler, Ethernet frames with a short or
\* malformed IPv4, IPv6 or ARP header included.
C10_Original ==
    (a_pc = "returned" /\ Malformed(a_input.linktype, a_input.frame)) =>
        a_result = FallbackText(a_input.linktype, Len(a_input.frame))

\* C10, amended: analyze_payload is total; it returns the fallback analysis
\* for every frame that is short or malformed for its handler, except that an
\* Ethernet frame of at least 14 bytes whose IPv4, IPv6 or ARP header is short
\* or malformed gets the generic Ethernet analysis: the MAC addresses as
\* source and destination, protocol "EtherType 0x{:04X}" and summary
\* "Ethernet 0x{:04X} -> captured {len} bytes".
C10_FallbackExceptEthernetInner ==
    a_pc = "returned" =>
        LET lt == a_input.linktype
            f == a_input.frame
        IN  /\ IsAnalysis(a_result)
            /\ (Malformed(lt, f) /\ ~ (lt = << 0, 1 >> /\ Len(f) >= 14)) =>
                  a_result = FallbackText(lt, Len(f))
            /\ (lt = << 0, 1 >> /\ Len(f) >= 14 /\ EthernetInnerMalformed(f)) =>
                  /\ a_result.source = format_mac(SubSeq(f, 7, 12))
                  /\ a_result.destination = format_mac(SubSeq(f, 1, 6))
                  /\ a_result.protocol =
                        << [s |-> "EtherType 0x", n |-> 0],
                           [s |-> "{:04X}", n |-> EtherTypeOf(f)] >>
                  /\ a_result.summary =
                        << [s |-> "Ethernet 0x", n |-> 0],
                           [s |-> "{:04X}", n |-> EtherTypeOf(f)],
                           [s |-> " ", n |-> 0], [s |-> "U+2192", n |-> 0],
                           [s |-> " captured ", n |-> 0], [s |-> "{}", n |-> Len(f)],
                           [s |-> " bytes", n |-> 0] >>

\* An Ethernet frame announcing IPv4 with a 19-byte IPv4 header was analysed.
C10_Witness ==
    /\ a_pc = "returned"
    /\ a_input.linktype = << 0, 1 >>
    /\ Len(a_input.frame) = 33
    /\ EtherTypeOf(a_input.frame) = 2048
    /\ a_result.protocol # FallbackText(<< 0, 1 >>, 33).protocol

\* ---- C11

IsExtensionHeader(nh) == nh \in {0, 43, 60, 44, 51}

\* The length the extension header at offset off declares, by its kind.
DeclaredLength(packet, off, nh) ==
    CASE nh \in {0, 43, 60} -> (packet[off + 2] + 1) * 8
      [] nh = 44 -> 8
      [] nh = 51 -> (packet[off + 2] + 2) * 4

\* The extension header at off does not fit in what is left of the packet.
Overruns(packet, off, nh) ==
    \/ Len(packet) < off + (IF nh = 51 THEN 4 ELSE 8)
    \/ Len(packet) < off + DeclaredLength(packet, off, nh)

C11_Bounded ==
    /\ a_pc # "call" => v6_hops <= 4 /\ v6_offset <= Len(a_input.frame)
    /\ (a_pc = "returned" /\ v6_offset >= 40) =>
          a_result.protocol = Lit(map_ip_protocol(v6_next_header))

C11_Traversal ==
    LET packet == a_input.frame
        stops == /\ a_pc' = "ext_done"
                 /\ v6_next_header' = v6_next_header
                 /\ v6_offset' = v6_offset
                 /\ v6_hops' = v6_hops
    IN  /\ a_pc = "ext_loop" =>
              IF v6_hops = 4 \/ ~ IsExtensionHeader(v6_next_header) THEN stops
              ELSE IF Overruns(packet, v6_offset, v6_next_header) THEN stops
              ELSE /\ a_pc' = "ext_loop"
                   /\ v6_next_header' = packet[v6_offset + 1]
                   /\ v6_offset' =
                         v6_offset + DeclaredLength(packet, v6_offset, v6_next_header)
                   /\ v6_hops' = v6_hops + 1
        /\ a_pc = "ext_done" =>
              /\ a_pc' = "returned"
              /\ v6_next_header' = v6_next_header
              /\ v6_offset' = v6_offset

\* C11: parse_ipv6_packet skips at most four extension headers (0, 43, 60, 44,
\* 51); after the fourth it stops and the protocol reported is the name of the
\* next_header read from that fourth header; a header that overruns the
\* buffer stops the traversal with next_header and offset as they were; and
\* offset never exceeds the packet's length.
C11_ExtensionHeaderTraversal == [] C11_Bounded /\ [][C11_Traversal]_vars

\* A chain of five extension headers was analysed: four were skipped and the
\* protocol is named after the fifth, an authentication header.
C11_Witness ==
    /\ a_pc = "returned"
    /\ v6_hops = 4
    /\ v6_next_header = 51
    /\ v6_offset + 12 <= Len(a_input.frame)
    /\ a_result.protocol = Lit("AH")

\* ---- C12

\* The packet blocks among the first k blocks that emitted no packet.
SkippedBefore(k) ==
    { b \in 1..k : IsPacketBlock(seen[b]) /\ b \notin Range(packet_pos) }

\* The packet a truncation warning is about: the one from the same place.
PacketOfWarning(j) == CHOOSE i \in 1..Len(packets) : packet_pos[i] = warning_pos[j]

TruncationWarnings == { j \in 1..Len(warnings) : IsTruncationWarning(warnings[j]) }

\* C12: in process_pcapng the number n in warnings counts the Enhanced-Packet
\* and Simple-Packet blocks consumed in the whole stream, skipped ones
\* included and across Section Headers: n >= the number of packets, equal
\* exactly when no packet block was skipped, and a truncation warning's n is
\* the packet's 1-based position exactly then; in process_pcap n is always
\* that position.
C12_PacketNumbering ==
    /\ (format = "PcapNg" /\ seen # << >> /\ pc \in {"ng_loop", "done"}) =>
          /\ packet_index = PacketBlockCount(seen)
          /\ packet_index >= Len(packets)
          /\ packet_index = Len(packets) <=> SkippedBefore(Len(seen)) = {}
          /\ \A j \in TruncationWarnings :
                LET i == PacketOfWarning(j) IN
                /\ warnings[j][2].n = PacketBlockCount(SubSeq(seen, 1, packet_pos[i]))
                /\ warnings[j][2].n >= i
                /\ warnings[j][2].n = i <=> SkippedBefore(packet_pos[i]) = {}
    /\ (format = "Pcap" /\ pc \in {"pcap_loop", "done"} /\ errors = << >>) =>
          \A j \in TruncationWarnings : warnings[j][2].n = PacketOfWarning(j)

\* An Enhanced-Packet block was skipped, a Section Header followed, and the
\* truncated packet after it is the first packet but is numbered 2 or more.
C12_Witness ==
    /\ format = "PcapNg"
    /\ pc = "done"
    /\ Len(packets) = 1
    /\ packet_index >= 2
    /\ \E k \in 2..Len(seen) :
          /\ seen[k].kind = "SectionHeader"
          /\ SkippedBefore(k) # {}
          /\ k < packet_pos[1]
    /\ \E j \in TruncationWarnings : warnings[j][2].n = packet_index

\* ---- C13

InPcap == format = "Pcap" /\ Len(data) >= 24 /\ pc \in {"pcap_loop", "done", "panicked"}

C13_Bounds ==
    InPcap =>
        /\ offset <= Len(data)
        /\ Len(packets) <= (Len(data) - 24) \div 16

C13_Progress ==
    pc = "pcap_loop" =>
        /\ pc' # "pcap_loop" \/ offset' >= offset + 16
        /\ pc' # "pcap_loop" \/ Len(packets') = Len(packets) + 1
        /\ Len(packets') > Len(packets) => offset' <= Len(data)

\* C13: process_pcap terminates on every input: each iteration of its loop
\* either leaves the loop (the end of the records, a break, or a panic) or
\* advances offset by at least 16 and emits a packet; offset does not exceed
\* len(data) after an iteration that emits a packet; and at most
\* floor((len(data) - 24) / 16) packets are emitted, which bounds the number
\* of iterations.
C13_PcapTerminates == [] C13_Bounds /\ [][C13_Progress]_vars

\* Two records without payload were decoded: as many packets as the bound allows.
C13_Witness ==
    /\ format = "Pcap"
    /\ pc = "done"
    /\ Len(packets) = 2
    /\ Len(data) = 24 + 2 * 16
    /\ offset = Len(data)

\* ---- C14

C14_HeaderOnly ==
    (format = "Pcap" /\ pc = "done" /\ Len(data) = 24) =>
        packets = << >> /\ warnings = << >> /\ errors = << >>

C14_SilentEnd ==
    (pc = "pcap_loop" /\ Len(data) - offset < 16) =>
        /\ pc' = "done"
        /\ packets' = packets
        /\ warnings' = warnings
        /\ errors' = << >>

\* C14: in process_pcap, when fewer than 16 bytes remain after the last
\* complete record (a partial record header, or nothing), decoding ends with
\* no warning and no error for them; a buffer that is only a valid 24-byte
\* header gives a result whose packets, warnings and errors are all empty.
C14_TrailingBytesSilent == [] C14_HeaderOnly /\ [][C14_SilentEnd]_vars

\* A packet was decoded and one byte of a next record header was left over:
\* the result has the packet and nothing about the byte.
C14_Witness ==
    /\ format = "Pcap"
    /\ pc = "done"
    /\ Len(data) = offset + 1
    /\ Len(packets) = 1
    /\ warnings = << >>
    /\ errors = << >>

\* The 24-byte header alone was decoded.
C14_HeaderOnlyReached ==
    format = "Pcap" /\ pc = "done" /\ Len(data) = 24 /\ offset = 24

====
